---- MODULE Spec2Model ----
(***************************************************************************)
(* The voice call modal (ClientCallModal, src/unnamed/part_000 lines       *)
(* 1-224) and the part of CandidateWorkspace that presents it.  One action *)
(* per handler, callback or timer.  React state set with setTranscript is  *)
(* held in an update queue until the component renders; refs, the audio    *)
(* objects and the session are plain variables.                            *)
(***************************************************************************)
EXTENDS Integers, Sequences, FiniteSets, TLC

\* ---------------------------------------------------------------- bounds
MaxMsgs == 2
MaxAnswers == 2
MaxClock == 2
MaxFrames == 3
SubSteps == 2

\* ------------------------------------------------------ program constants
RejectText == "Candidate rejected the call."
NoKeyApology == "I'm sorry, my audio system isn't working. Let's reschedule."
MicApology == "It seems you're having microphone issues. We can try this again later."
TransportApology == "I'm having connection issues. Let's end this call and I'll follow up via email."

\* ------------------------------------------------------------ input sets
InFrags == {"Hello", " there"}
OutFrags == {"Hi"}
Durations == {1, 2}
NoAudio == 0
BadAudio == -1

\* A LiveServerMessage: an audio payload (NoAudio, BadAudio for a payload
\* decodeAudioData rejects, or the duration of the decoded buffer), an input
\* and an output transcription fragment ("" when absent), a turnComplete flag.
AudioOnly == [audio : Durations \cup {BadAudio}, inT : {""}, outT : {""}, turn : {FALSE}]
InputText == [audio : {NoAudio}, inT : InFrags, outT : {""}, turn : {FALSE}]
    \cup [audio : {NoAudio}, inT : {" there"}, outT : {""}, turn : {TRUE}]
OutputText == [audio : {NoAudio}, inT : {"", "Hello"}, outT : OutFrags, turn : {FALSE}]
TurnOnly == [audio : {NoAudio}, inT : {""}, outT : {""}, turn : {TRUE}]
AudioText == [audio : {1, BadAudio}, inT : {""}, outT : OutFrags, turn : {TRUE}]
Messages == AudioOnly \cup InputText \cup OutputText \cup TurnOnly \cup AudioText

VARIABLES
    apiKey,            \* API_KEY is configured
    callFired,         \* the workspace's call timeout has fired
    mounted,           \* showCallModal: the modal exists
    callTranscript,    \* workRef.current.callTranscript
    status,            \* useState status
    transcript,        \* useState transcript, as of the last render
    updateQueue,       \* setTranscript updaters not yet rendered
    curIn,             \* currentInputTranscriptionRef.current
    curOut,            \* currentOutputTranscriptionRef.current
    captured,          \* transcript closed over by the endCall that startVoiceCall holds
    sessionPromise,    \* sessionPromiseRef.current: "null", "pending", "resolved", "rejected"
    session,           \* the connection: "none", "connecting", "open", "closed", "failed"
    closePending,      \* then(session => session.close()) callbacks waiting for the promise
    closeCalls,        \* session.close() calls performed
    micRequest,        \* getUserMedia: "idle", "pending", "granted", "denied"
    stream,            \* streamRef.current: "none", "live", "stopped"
    trackStops,        \* track.stop() rounds performed
    processor,         \* scriptProcessorRef.current: "none", "connected", "disconnected"
    disconnects,       \* disconnect() calls performed
    audioCtx,          \* audioContextRef.current: "none", "running", "closed"
    outCtx,            \* outputAudioContextRef.current, same values
    inCloses,          \* audioContextRef.current.close() calls performed
    outCloses,         \* outputAudioContextRef.current.close() calls performed
    nextStartTime,     \* the playback cursor
    clock,             \* outputAudioContextRef.current.currentTime
    inflight,          \* onmessage handlers waiting at the decode await, oldest first
    scheduled,         \* source.start calls: [start, dur, read, now, ctx, status]
    endTimers,         \* setTimeout(endCall, 3000) not yet fired
    closeTimers,       \* setTimeout(() => onClose(finalTranscript), 1500) not yet fired
    onCloseCalls,      \* history: the onClose calls made
    intended,          \* history: the entries setTranscript was called to append, as of each call
    msgs,              \* messages received
    orphans,           \* sessions open or being opened whose promise the ref no longer holds
    audioIn,           \* history: decodable audio chunks received while status was connected
    answers,           \* Answer presses
    codecStage,        \* the codec round trip: "idle", "input", "encoded", "decoded"
    sample,            \* the Float32 sample, in units of 1 / (Scale * SubSteps)
    payload,           \* the base64 digits of the encoded sample
    decoded,           \* the decoded sample, in units of 1 / DecodeScale
    endPc,             \* an endCall running step by step: [step, done, tr, cause]
    late,              \* history: messages that reached the connection after it was closed
    capture            \* the audio frames captured: [n, held, sends, due]

vars == <<apiKey, callFired, mounted, callTranscript, status, transcript, updateQueue,
          curIn, curOut, captured, sessionPromise, session, closePending, closeCalls,
          micRequest, stream, trackStops, processor, disconnects, audioCtx, outCtx,
          inCloses, outCloses, nextStartTime, clock, inflight, scheduled, endTimers,
          closeTimers, onCloseCalls, intended, msgs, orphans, audioIn, answers,
          codecStage, sample, payload, decoded, endPc, capture, late>>

workspaceVars == <<callFired, callTranscript>>
textVars == <<transcript, updateQueue, curIn, curOut, intended>>
sessionVars == <<sessionPromise, session, closePending, closeCalls>>
micVars == <<micRequest, stream, trackStops, processor, disconnects, audioCtx, outCtx,
             inCloses, outCloses>>
playVars == <<nextStartTime, clock, inflight, scheduled>>
timerVars == <<endTimers, closeTimers>>
countVars == <<msgs, orphans, audioIn, answers>>
codecVars == <<codecStage, sample, payload, decoded>>

Max(a, b) == IF a >= b THEN a ELSE b

\* ----------------------------------------------------------- transcript
Entry(author, text) == [author |-> author, text |-> text, lazy |-> FALSE]

\* An updater prev => [...prev, {author, text: ref.current}]: the ref is read
\* when the updater runs.
LazyEntry(author) == [author |-> author, text |-> "", lazy |-> TRUE]

\* `${t.author}: ${t.text}`
Line(t) == t.author \o ": " \o t.text

\* transcript.map(...).join('\n')
RECURSIVE Serialize(_)
Serialize(tr) ==
    IF tr = <<>> THEN ""
    ELSE IF Len(tr) = 1 THEN Line(tr[1])
    ELSE Line(tr[1]) \o "\n" \o Serialize(Tail(tr))

\* Running one queued updater at render time.
RunUpdater(u) ==
    IF u.lazy
    THEN Entry(u.author, IF u.author = "You" THEN curIn ELSE curOut)
    ELSE u

\* setTranscript(prev => [...prev, e]) on a mounted component queues the
\* updater; on an unmounted one it does nothing.
Enqueue(q, e) == IF mounted THEN Append(q, e) ELSE q


\* No frame has been captured: n frames so far, held the sends waiting for
\* the session promise, sends the sendRealtimeInput calls made (asked: after
\* endCall requested the close; on: the session's state at the call), due
\* the frames captured with the session live and no close requested.
NoFrames == [n |-> 0, held |-> <<>>, sends |-> <<>>, due |-> <<>>]

\* No endCall is running.
NotEnding == [step |-> "idle", done |-> <<>>, tr |-> <<>>, cause |-> ""]

\* --------------------------------------------------------------- Init
ModalInit ==
    /\ apiKey \in BOOLEAN
    /\ callFired = FALSE
    /\ mounted = FALSE
    /\ callTranscript = "N/A"
    /\ status = "ringing"
    /\ transcript = <<>>
    /\ updateQueue = <<>>
    /\ curIn = ""
    /\ curOut = ""
    /\ captured = <<>>
    /\ sessionPromise = "null"
    /\ session = "none"
    /\ closePending = 0
    /\ closeCalls = 0
    /\ micRequest = "idle"
    /\ stream = "none"
    /\ trackStops = 0
    /\ processor = "none"
    /\ disconnects = 0
    /\ audioCtx = "none"
    /\ outCtx = "none"
    /\ inCloses = 0
    /\ outCloses = 0
    /\ nextStartTime = 0
    /\ clock = 0
    /\ inflight = <<>>
    /\ scheduled = <<>>
    /\ endTimers = <<>>
    /\ closeTimers = <<>>
    /\ onCloseCalls = <<>>
    /\ intended = <<>>
    /\ msgs = 0
    /\ audioIn = 0
    /\ orphans = 0
    /\ late = 0
    /\ answers = 0
    /\ endPc = NotEnding
    /\ capture = NoFrames

\* No sample is in the codec.
CodecIdle ==
    /\ codecStage = "idle"
    /\ sample = 0
    /\ payload = <<>>
    /\ decoded = 0

Init == ModalInit /\ CodecIdle

\* ------------------------------------------------------------ workspace
\* The call timeout firing again and again, as an interval would.
ShowCallRepeats ==
    /\ callFired' = TRUE
    /\ mounted' = TRUE
    /\ UNCHANGED <<apiKey, late, codecVars, endPc, capture, callTranscript, status, textVars, captured, sessionVars,
                   micVars, playVars, timerVars, onCloseCalls, countVars>>

\* The call timeout of CandidateWorkspace: setShowCallModal(true).
ShowCall ==
    /\ ~callFired
    /\ callFired' = TRUE
    /\ mounted' = TRUE
    /\ UNCHANGED <<apiKey, late, codecVars, endPc, capture, callTranscript, status, textVars, captured, sessionVars,
                   micVars, playVars, timerVars, onCloseCalls, countVars>>

\* handleCallClose(t): store the transcript, unmount the modal.  The updates
\* an unmounted component still had queued are dropped.
HandleCallClose(by, text, expected) ==
    /\ callTranscript' = text
    /\ mounted' = FALSE
    /\ updateQueue' = <<>>
    /\ onCloseCalls' = Append(onCloseCalls, [by |-> by, text |-> text, expected |-> expected])

\* ---------------------------------------------------------------- endCall
\* The close step with a session.close() that leaves the session open.
CloseStepLeavesOpen ==
    /\ closePending' = IF sessionPromise = "pending" THEN closePending + 1 ELSE closePending
    /\ closeCalls' = IF sessionPromise = "resolved" THEN closeCalls + 1 ELSE closeCalls
    /\ UNCHANGED <<session, sessionPromise>>

\* The close step of endCall: sessionPromiseRef.current?.then(s => s.close()).
CloseStep ==
    /\ closePending' = IF sessionPromise = "pending" THEN closePending + 1 ELSE closePending
    /\ closeCalls' = IF sessionPromise = "resolved" THEN closeCalls + 1 ELSE closeCalls
    /\ session' = IF sessionPromise = "resolved" THEN "closed" ELSE session
    /\ UNCHANGED sessionPromise

\* The release steps without the check of the contexts' state.
ReleaseStepsNoStateCheck ==
    /\ stream' = IF stream # "none" THEN "stopped" ELSE stream
    /\ trackStops' = IF stream # "none" THEN trackStops + 1 ELSE trackStops
    /\ processor' = IF processor # "none" THEN "disconnected" ELSE processor
    /\ disconnects' = IF processor # "none" THEN disconnects + 1 ELSE disconnects
    /\ audioCtx' = IF audioCtx # "none" THEN "closed" ELSE audioCtx
    /\ inCloses' = IF audioCtx # "none" THEN inCloses + 1 ELSE inCloses
    /\ outCtx' = IF outCtx # "none" THEN "closed" ELSE outCtx
    /\ outCloses' = IF outCtx # "none" THEN outCloses + 1 ELSE outCloses
    /\ UNCHANGED micRequest

\* The release steps of endCall for the microphone and the audio graph.
\* close() sets the context's state to closed before it returns.
ReleaseSteps ==
    /\ stream' = IF stream # "none" THEN "stopped" ELSE stream
    /\ trackStops' = IF stream # "none" THEN trackStops + 1 ELSE trackStops
    /\ processor' = IF processor # "none" THEN "disconnected" ELSE processor
    /\ disconnects' = IF processor # "none" THEN disconnects + 1 ELSE disconnects
    /\ audioCtx' = IF audioCtx = "running" THEN "closed" ELSE audioCtx
    /\ inCloses' = IF audioCtx = "running" THEN inCloses + 1 ELSE inCloses
    /\ outCtx' = IF outCtx = "running" THEN "closed" ELSE outCtx
    /\ outCloses' = IF outCtx = "running" THEN outCloses + 1 ELSE outCloses
    /\ UNCHANGED micRequest

\* endCall as created by a render whose transcript was tr; cause names the
\* trigger.  expected is the transcript state when endCall runs.
EndCall(tr, cause) ==
    /\ status' = IF mounted THEN "ended" ELSE status
    /\ ReleaseSteps
    /\ CloseStep
    /\ closeTimers' = Append(closeTimers,
           [final |-> Serialize(tr), expected |-> Serialize(transcript), cause |-> cause])

\* The End Call button, shown while status is connected: the endCall of the
\* last render.
EndCallButton ==
    /\ mounted /\ status = "connected"
    /\ EndCall(transcript, "button")
    /\ UNCHANGED <<apiKey, late, codecVars, endPc, capture, workspaceVars, mounted, textVars, captured, playVars,
                   endTimers, onCloseCalls, countVars>>

\* A setTimeout(endCall, 3000) fires.  Renders are scheduled at once and the
\* timer waits 3000 ms, so the queued updates have been rendered by then.
EndTimerFire ==
    /\ endTimers # <<>>
    /\ updateQueue = <<>>
    /\ EndCall(Head(endTimers).tr, Head(endTimers).cause)
    /\ endTimers' = Tail(endTimers)
    /\ UNCHANGED <<apiKey, late, codecVars, endPc, capture, workspaceVars, mounted, textVars, captured, playVars,
                   onCloseCalls, countVars>>

\* A setTimeout(() => onClose(finalTranscript), 1500) fires.
CloseTimerFire ==
    /\ closeTimers # <<>>
    /\ HandleCallClose(Head(closeTimers).cause, Head(closeTimers).final,
                       Head(closeTimers).expected)
    /\ closeTimers' = Tail(closeTimers)
    /\ UNCHANGED <<apiKey, late, codecVars, endPc, capture, callFired, status, transcript, curIn, curOut, intended,
                   captured, sessionVars, micVars, playVars, endTimers, countVars>>

\* Decline handing over the serialized transcript instead of the fixed text.
DeclineWithTranscript ==
    /\ mounted /\ status = "ringing"
    /\ HandleCallClose("decline", Serialize(transcript), RejectText)
    /\ UNCHANGED <<apiKey, late, codecVars, endPc, capture, callFired, status, transcript, curIn, curOut, intended,
                   captured, sessionVars, micVars, playVars, timerVars, countVars>>

\* The Decline button, shown while status is ringing.
Decline ==
    /\ mounted /\ status = "ringing"
    /\ HandleCallClose("decline", RejectText, RejectText)
    /\ UNCHANGED <<apiKey, late, codecVars, endPc, capture, callFired, status, transcript, curIn, curOut, intended,
                   captured, sessionVars, micVars, playVars, timerVars, countVars>>


\* ----------------------------------------------------------------- render
\* The queued updaters returning only their own entry.
RenderOnlyQueued(q) == [i \in 1..Len(q) |-> RunUpdater(q[i])]

\* The transcript after the queued updaters q have run, in order.
RenderAll(q) == transcript \o [i \in 1..Len(q) |-> RunUpdater(q[i])]

\* React renders the component: the queued updaters run now.
Render ==
    /\ updateQueue # <<>>
    /\ transcript' = RenderAll(updateQueue)
    /\ updateQueue' = <<>>
    /\ UNCHANGED <<apiKey, late, codecVars, endPc, capture, workspaceVars, mounted, status, curIn, curOut, intended,
                   captured, sessionVars, micVars, playVars, timerVars, onCloseCalls,
                   countVars>>

\* --------------------------------------------------------- startVoiceCall
\* The Answer button shown whatever the status is.
AnswerShownAlways ==
    /\ mounted
    /\ answers < MaxAnswers
    /\ answers' = answers + 1
    /\ IF ~apiKey
       THEN /\ transcript' = RenderAll(Append(updateQueue, Entry("Client", NoKeyApology)))
            /\ updateQueue' = <<>>
            /\ intended' = Append(intended, Entry("Client", NoKeyApology))
            /\ endTimers' = Append(endTimers, [tr |-> transcript, cause |-> "nokey"])
            /\ UNCHANGED <<status, captured, sessionVars, orphans, nextStartTime>>
       ELSE /\ status' = "connected"
            /\ captured' = transcript
            /\ nextStartTime' = 0
            /\ sessionPromise' = "pending"
            /\ session' = "connecting"
            /\ orphans' = IF session \in {"connecting", "open"} THEN orphans + 1 ELSE orphans
            /\ UNCHANGED <<transcript, updateQueue, intended, endTimers, closePending,
                           closeCalls>>
    /\ UNCHANGED <<apiKey, late, codecVars, endPc, capture, workspaceVars, mounted, curIn, curOut, micVars, clock,
                   inflight, scheduled, closeTimers, onCloseCalls, msgs, audioIn>>

\* startVoiceCall without its setStatus('connected'): the Answer button stays.
AnswerKeepsRinging ==
    /\ mounted /\ status = "ringing"
    /\ answers < MaxAnswers
    /\ answers' = answers + 1
    /\ IF ~apiKey
       THEN /\ transcript' = RenderAll(Append(updateQueue, Entry("Client", NoKeyApology)))
            /\ updateQueue' = <<>>
            /\ intended' = Append(intended, Entry("Client", NoKeyApology))
            /\ endTimers' = Append(endTimers, [tr |-> transcript, cause |-> "nokey"])
            /\ UNCHANGED <<captured, sessionVars, orphans, nextStartTime>>
       ELSE /\ captured' = transcript
            /\ nextStartTime' = 0
            /\ sessionPromise' = "pending"
            /\ session' = "connecting"
            /\ orphans' = IF session \in {"connecting", "open"} THEN orphans + 1 ELSE orphans
            /\ UNCHANGED <<transcript, updateQueue, intended, endTimers, closePending,
                           closeCalls>>
    /\ UNCHANGED <<apiKey, late, codecVars, endPc, capture, workspaceVars, mounted, status, curIn, curOut, micVars, clock,
                   inflight, scheduled, closeTimers, onCloseCalls, msgs, audioIn>>

\* Answer whose path without an API key sets no timer.
AnswerNoKeyNoTimer ==
    /\ mounted /\ status = "ringing"
    /\ answers < MaxAnswers
    /\ answers' = answers + 1
    /\ IF ~apiKey
       THEN /\ transcript' = RenderAll(Append(updateQueue, Entry("Client", NoKeyApology)))
            /\ updateQueue' = <<>>
            /\ intended' = Append(intended, Entry("Client", NoKeyApology))
            /\ UNCHANGED <<endTimers, status, captured, sessionVars, orphans, nextStartTime>>
       ELSE /\ status' = "connected"
            /\ captured' = transcript
            /\ nextStartTime' = 0
            /\ sessionPromise' = "pending"
            /\ session' = "connecting"
            /\ orphans' = IF session \in {"connecting", "open"} THEN orphans + 1 ELSE orphans
            /\ UNCHANGED <<transcript, updateQueue, intended, endTimers, closePending,
                           closeCalls>>
    /\ UNCHANGED <<apiKey, late, codecVars, endPc, capture, workspaceVars, mounted, curIn, curOut, micVars, clock,
                   inflight, scheduled, closeTimers, onCloseCalls, msgs, audioIn>>

\* The Answer button, shown while status is ringing.  Without an API key the
\* handler queues an apology and a timer and returns; the click is a discrete
\* event, so its update is rendered before the next event.  With a key it
\* sets status and calls ai.live.connect.
Answer ==
    /\ mounted /\ status = "ringing"
    /\ answers < MaxAnswers
    /\ answers' = answers + 1
    /\ IF ~apiKey
       THEN /\ transcript' = RenderAll(Append(updateQueue, Entry("Client", NoKeyApology)))
            /\ updateQueue' = <<>>
            /\ intended' = Append(intended, Entry("Client", NoKeyApology))
            /\ endTimers' = Append(endTimers, [tr |-> transcript, cause |-> "nokey"])
            /\ UNCHANGED <<status, captured, sessionVars, orphans, nextStartTime>>
       ELSE /\ status' = "connected"
            /\ captured' = transcript
            /\ nextStartTime' = 0
            /\ sessionPromise' = "pending"
            /\ session' = "connecting"
            /\ orphans' = IF session \in {"connecting", "open"} THEN orphans + 1 ELSE orphans
            /\ UNCHANGED <<transcript, updateQueue, intended, endTimers, closePending,
                           closeCalls>>
    /\ UNCHANGED <<apiKey, late, codecVars, endPc, capture, workspaceVars, mounted, curIn, curOut, micVars, clock,
                   inflight, scheduled, closeTimers, onCloseCalls, msgs, audioIn>>

\* onopen creating the audio contexts before it awaits getUserMedia.
SessionOpenContextsFirst ==
    /\ session = "connecting"
    /\ sessionPromise' = "resolved"
    /\ session' = IF closePending > 0 THEN "closed" ELSE "open"
    /\ closeCalls' = closeCalls + closePending
    /\ closePending' = 0
    /\ micRequest' = "pending"
    /\ audioCtx' = "running"
    /\ outCtx' = "running"
    /\ UNCHANGED <<apiKey, late, codecVars, endPc, capture, workspaceVars, mounted, status, textVars, captured, stream,
                   trackStops, processor, disconnects, inCloses, outCloses, playVars,
                   timerVars, onCloseCalls, countVars>>

\* The session promise resolving with the close callbacks left out.
SessionOpenDropsClose ==
    /\ session = "connecting"
    /\ sessionPromise' = "resolved"
    /\ session' = "open"
    /\ closePending' = 0
    /\ micRequest' = "pending"
    /\ UNCHANGED <<apiKey, late, codecVars, endPc, capture, workspaceVars, mounted, status, textVars, captured, stream,
                   trackStops, processor, disconnects, audioCtx, outCtx, inCloses,
                   outCloses, playVars, timerVars, onCloseCalls, countVars, closeCalls>>

\* The connection opens: onopen runs up to await getUserMedia, then the
\* connect promise resolves and the close callbacks waiting on it run.
SessionOpen ==
    /\ session = "connecting"
    /\ sessionPromise' = "resolved"
    /\ session' = IF closePending > 0 THEN "closed" ELSE "open"
    /\ closeCalls' = closeCalls + closePending
    /\ closePending' = 0
    /\ micRequest' = "pending"
    /\ UNCHANGED <<apiKey, late, codecVars, endPc, capture, workspaceVars, mounted, status, textVars, captured, stream,
                   trackStops, processor, disconnects, audioCtx, outCtx, inCloses,
                   outCloses, playVars, timerVars, onCloseCalls, countVars>>

\* getUserMedia resolves: the rest of onopen's try block.
MicGranted ==
    /\ micRequest = "pending"
    /\ micRequest' = "granted"
    /\ stream' = "live"
    /\ audioCtx' = "running"
    /\ outCtx' = "running"
    /\ processor' = "connected"
    /\ UNCHANGED <<apiKey, late, codecVars, endPc, capture, workspaceVars, mounted, status, textVars, captured,
                   sessionVars, trackStops, disconnects, inCloses, outCloses, playVars,
                   timerVars, onCloseCalls, countVars>>

\* The catch block without its setTimeout(endCall, 3000).
MicDeniedNoTimer ==
    /\ micRequest = "pending"
    /\ micRequest' = "denied"
    /\ updateQueue' = Enqueue(updateQueue, Entry("Client", MicApology))
    /\ intended' = Enqueue(intended, Entry("Client", MicApology))
    /\ UNCHANGED <<apiKey, late, codecVars, endPc, capture, workspaceVars, mounted, status, transcript, curIn, curOut,
                   captured, sessionVars, stream, trackStops, processor, disconnects,
                   audioCtx, outCtx, inCloses, outCloses, playVars, timerVars,
                   onCloseCalls, countVars>>

\* getUserMedia rejects: onopen's catch block.
MicDenied ==
    /\ micRequest = "pending"
    /\ micRequest' = "denied"
    /\ updateQueue' = Enqueue(updateQueue, Entry("Client", MicApology))
    /\ intended' = Enqueue(intended, Entry("Client", MicApology))
    /\ endTimers' = Append(endTimers, [tr |-> captured, cause |-> "mic"])
    /\ UNCHANGED <<apiKey, late, codecVars, endPc, capture, workspaceVars, mounted, status, transcript, curIn, curOut,
                   captured, sessionVars, stream, trackStops, processor, disconnects,
                   audioCtx, outCtx, inCloses, outCloses, playVars, closeTimers,
                   onCloseCalls, countVars>>

\* onerror followed by a reconnect.
OnErrorReconnects ==
    /\ session \in {"connecting", "open"}
    /\ session' = "connecting"
    /\ updateQueue' = Enqueue(updateQueue, Entry("Client", TransportApology))
    /\ intended' = Enqueue(intended, Entry("Client", TransportApology))
    /\ endTimers' = Append(endTimers, [tr |-> captured, cause |-> "transport"])
    /\ UNCHANGED <<apiKey, late, codecVars, endPc, capture, workspaceVars, mounted, status, transcript, curIn, curOut,
                   captured, sessionPromise, closePending, closeCalls, micVars, playVars,
                   closeTimers, onCloseCalls, countVars>>

\* onerror: the connection failed, while connecting or when open.
OnError ==
    /\ session \in {"connecting", "open"}
    /\ session' = IF session = "connecting" THEN "failed" ELSE "closed"
    /\ updateQueue' = Enqueue(updateQueue, Entry("Client", TransportApology))
    /\ intended' = Enqueue(intended, Entry("Client", TransportApology))
    /\ endTimers' = Append(endTimers, [tr |-> captured, cause |-> "transport"])
    /\ UNCHANGED <<apiKey, late, codecVars, endPc, capture, workspaceVars, mounted, status, transcript, curIn, curOut,
                   captured, sessionPromise, closePending, closeCalls, micVars, playVars,
                   closeTimers, onCloseCalls, countVars>>

\* The promise returned by ai.live.connect rejects: no callback of the
\* session is called, and the code attaches no rejection handler to the
\* promise (line 82); the then-callbacks of endCall (line 39) are skipped.
ConnectRejected ==
    /\ session = "connecting"
    /\ session' = "failed"
    /\ sessionPromise' = "rejected"
    /\ closePending' = 0
    /\ UNCHANGED <<apiKey, late, codecVars, endPc, capture, workspaceVars, mounted, status, textVars, captured,
                   closeCalls, micVars, playVars, timerVars, onCloseCalls, countVars>>

\* onclose calling endCall.
RemoteCloseEndsCall ==
    /\ session = "open"
    /\ EndCall(captured, "close")
    /\ UNCHANGED <<apiKey, late, codecVars, endPc, capture, workspaceVars, mounted, textVars, captured, playVars,
                   endTimers, onCloseCalls, countVars>>

\* onclose: the remote end closed the connection; the handler only logs.
RemoteClose ==
    /\ session = "open"
    /\ session' = "closed"
    /\ UNCHANGED <<apiKey, late, codecVars, endPc, capture, workspaceVars, mounted, status, textVars, captured,
                   sessionPromise, closePending, closeCalls, micVars, playVars,
                   timerVars, onCloseCalls, countVars>>

\* The output context's clock advances.
Tick ==
    /\ outCtx = "running"
    /\ clock < MaxClock
    /\ clock' = clock + 1
    /\ UNCHANGED <<apiKey, late, codecVars, endPc, capture, workspaceVars, mounted, status, textVars, captured,
                   sessionVars, micVars, nextStartTime, inflight, scheduled, timerVars,
                   onCloseCalls, countVars>>


\* --------------------------------------------------------------- onmessage
\* The input accumulator assigned the fragment instead of extended by it.
InAfterAssigned(m) == IF m.outT = "" /\ m.inT # "" THEN m.inT ELSE curIn

\* The accumulators after the fragments of m are appended: an output
\* fragment, else an input fragment.
InAfter(m) == IF m.outT = "" /\ m.inT # "" THEN curIn \o m.inT ELSE curIn
OutAfter(m) == IF m.outT # "" THEN curOut \o m.outT ELSE curOut

\* setTranscript(prev => [...prev, {author, text: ref.current}]) with the
\* ref holding text.  The updater reads the ref when it runs: React runs it
\* at once when the component has no update pending, and at the next render
\* otherwise.
Commit(q, author, text) ==
    Enqueue(q, IF q = <<>> THEN Entry(author, text) ELSE LazyEntry(author))

\* The commits of a turn-complete with the Client entry first.
QueueAfterTurnClientFirst(m) ==
    LET q1 == IF OutAfter(m) # "" THEN Commit(updateQueue, "Client", OutAfter(m))
              ELSE updateQueue
    IN  IF InAfter(m) # "" THEN Commit(q1, "You", InAfter(m)) ELSE q1

\* The queue after the commits of a turn-complete.
QueueAfterTurn(m) ==
    LET q1 == IF InAfter(m) # "" THEN Commit(updateQueue, "You", InAfter(m))
              ELSE updateQueue
    IN  IF OutAfter(m) # "" THEN Commit(q1, "Client", OutAfter(m)) ELSE q1

\* The entries those commits were called with.
IntendedAfterTurn(m) ==
    LET i1 == IF InAfter(m) # "" THEN Enqueue(intended, Entry("You", InAfter(m)))
              ELSE intended
    IN  IF OutAfter(m) # "" THEN Enqueue(i1, Entry("Client", OutAfter(m))) ELSE i1

\* The turn-complete leaving the accumulators as they are.
TextStepKeepsAccumulators(m) ==
    /\ curIn' = InAfter(m)
    /\ curOut' = OutAfter(m)
    /\ updateQueue' = IF m.turn THEN QueueAfterTurn(m) ELSE updateQueue
    /\ intended' = IF m.turn THEN IntendedAfterTurn(m) ELSE intended
    /\ UNCHANGED transcript

\* Lines 126-143: the transcription fragments, then the turn-complete.
TextStep(m) ==
    /\ curIn' = IF m.turn THEN "" ELSE InAfter(m)
    /\ curOut' = IF m.turn THEN "" ELSE OutAfter(m)
    /\ updateQueue' = IF m.turn THEN QueueAfterTurn(m) ELSE updateQueue
    /\ intended' = IF m.turn THEN IntendedAfterTurn(m) ELSE intended
    /\ UNCHANGED transcript

\* The cursor set to the clock, whatever it was.
CursorSetToClock == clock

\* Line 115: the cursor is moved up to the clock before the decode.
CursorBeforeDecode == Max(nextStartTime, clock)

\* Line 121: the start time handed to source.start.
StartTime == CursorBeforeDecode

\* The cursor advanced from the clock instead of from the start time.
CursorAfterFromClock(d) == clock + d

\* Line 122: the cursor after a buffer of duration d is scheduled.
CursorAfter(d) == StartTime + d

\* The clock values the decode may end at: the clock runs on while the
\* payload is decoded, when the context is running.
ClockAfterDecode == IF outCtx = "running" THEN clock..MaxClock ELSE {clock}

\* The body of the onmessage handler for m (lines 113-143), the decode
\* ending at clock value now.
Handler(m, now) ==
    /\ IF m.audio # NoAudio /\ outCtx # "none"
       THEN /\ now \in ClockAfterDecode
            /\ clock' = now
            /\ IF m.audio = BadAudio
               THEN /\ nextStartTime' = CursorBeforeDecode
                    /\ UNCHANGED <<scheduled, textVars>>
               ELSE /\ scheduled' = Append(scheduled,
                           [start |-> StartTime, dur |-> m.audio, read |-> clock,
                            now |-> now, ctx |-> outCtx, status |-> status])
                    /\ nextStartTime' = CursorAfter(m.audio)
                    /\ TextStep(m)
       ELSE /\ now = clock
            /\ TextStep(m)
            /\ UNCHANGED <<nextStartTime, clock, scheduled>>

\* onmessage, from the arrival of m to the end of the handler.  decodeAudioData
\* has no suspension of its own, so the handler resumes before any other
\* event is dispatched; only the audio clock moves meanwhile (to now).  A
\* payload that cannot be decoded rejects the await and ends the handler
\* after line 115.
Receive(m, now) ==
    /\ session = "open"
    /\ msgs' = msgs + 1
    /\ audioIn' = IF m.audio \in Durations /\ status = "connected"
                  THEN audioIn + 1 ELSE audioIn
    /\ Handler(m, now)
    /\ UNCHANGED <<apiKey, late, codecVars, endPc, capture, workspaceVars, mounted, status, captured, sessionVars,
                   micVars, inflight, timerVars, onCloseCalls, orphans, answers>>

\* A message arrives, up to MaxMsgs of them.
Message(m, now) ==
    /\ msgs < MaxMsgs
    /\ Receive(m, now)

\* ------------------------------------------------------------------- spec
Next ==
    \/ ShowCall
    \/ Answer
    \/ Decline
    \/ SessionOpen
    \/ MicGranted
    \/ MicDenied
    \/ OnError
    \/ ConnectRejected
    \/ RemoteClose
    \/ \E m \in Messages, now \in 0..MaxClock : Message(m, now)
    \/ Tick
    \/ Render
    \/ EndCallButton
    \/ EndTimerFire
    \/ CloseTimerFire

Spec == Init /\ [][Next]_vars

\* Timers fire, renders happen and promises settle once they are due.
Fairness ==
    /\ WF_vars(EndTimerFire)
    /\ WF_vars(CloseTimerFire)
    /\ WF_vars(Render)

FairSpec == Spec /\ Fairness


\* ------------------------------------------------------------------ claims
\* ------------------------------------------------------- scripted call
\* One call with a fixed sequence of messages: three input fragments, a
\* turn-complete, two output fragments, a turn-complete.  The fragments'
\* texts, the microphone grant, the renders and the clock are free.
Script == <<"in", "in", "in", "turn", "out", "out", "turn">>

\* The messages of one kind.
OfKind(k) ==
    IF k = "in" THEN [audio : {NoAudio}, inT : InFrags, outT : {""}, turn : {FALSE}]
    ELSE IF k = "out" THEN [audio : {NoAudio}, inT : {""}, outT : OutFrags, turn : {FALSE}]
    ELSE TurnOnly

ScriptInit == Init /\ apiKey

\* The next message of the script arrives.
ScriptMessage ==
    /\ msgs < Len(Script)
    /\ \E m \in OfKind(Script[msgs + 1]) : Receive(m, clock)

\* The user presses End Call after the last message was rendered.
ScriptEnd ==
    /\ msgs = Len(Script)
    /\ updateQueue = <<>>
    /\ EndCallButton

ScriptNext ==
    \/ ShowCall
    \/ Answer
    \/ SessionOpen
    \/ MicGranted
    \/ ScriptMessage
    \/ Tick
    \/ Render
    \/ ScriptEnd
    \/ CloseTimerFire

ScriptSpec == ScriptInit /\ [][ScriptNext]_vars

\* -------------------------------------------------------------- PCM codec
\* --------------------------------------------------- overlapping handlers
\* The audio part of onmessage in two steps, for handlers of consecutive
\* messages that overlap at the await of line 116.  decodeAudioData settles
\* its promise without waiting for anything, so the handlers resume in the
\* order they were suspended.
OverlapInit == Init /\ apiKey

\* Lines 113-116: the guard, the cursor moved up to the clock, the await.
ChunkArrives(d) ==
    /\ session = "open"
    /\ msgs < MaxMsgs
    /\ msgs' = msgs + 1
    /\ audioIn' = IF status = "connected" THEN audioIn + 1 ELSE audioIn
    /\ IF outCtx # "none"
       THEN /\ nextStartTime' = CursorBeforeDecode
            /\ inflight' = Append(inflight,
                   [seq |-> msgs + 1, dur |-> d, cursor |-> CursorBeforeDecode])
       ELSE UNCHANGED <<nextStartTime, inflight>>
    /\ UNCHANGED <<apiKey, late, codecVars, endPc, capture, workspaceVars, mounted, status, textVars, captured,
                   sessionVars, micVars, clock, scheduled, timerVars, onCloseCalls,
                   orphans, answers>>

\* The start time taken from the cursor as it was when the handler suspended.
StartAtArrivalCursor == Head(inflight).cursor

\* Line 121: the start time is the cursor as it is when the handler resumes.
ResumeStart == nextStartTime

\* Lines 117-123: the oldest suspended handler resumes.
ChunkResumes ==
    /\ inflight # <<>>
    /\ scheduled' = Append(scheduled,
           [seq |-> Head(inflight).seq, start |-> ResumeStart, dur |-> Head(inflight).dur,
            waiting |-> Len(inflight), ctx |-> outCtx, status |-> status])
    /\ nextStartTime' = ResumeStart + Head(inflight).dur
    /\ inflight' = Tail(inflight)
    /\ UNCHANGED <<apiKey, late, codecVars, endPc, capture, workspaceVars, mounted, status, textVars, captured,
                   sessionVars, micVars, clock, timerVars, onCloseCalls, countVars>>

OverlapNext ==
    \/ ShowCall
    \/ Answer
    \/ SessionOpen
    \/ MicGranted
    \/ \E d \in Durations : ChunkArrives(d)
    \/ ChunkResumes
    \/ Tick
    \/ EndCallButton
    \/ CloseTimerFire

OverlapSpec == OverlapInit /\ [][OverlapNext]_vars

\* ------------------------------------------------------ endCall, stepwise
\* endCall statement by statement.  It runs to completion: no other handler
\* runs while an endCall is between two of its steps.
Idle == endPc.step = "idle"

\* The step of lines 27-29 first, then the steps in the order of the swap
\* of the disconnect and the input context's close.
StepAfterSwapped(s) ==
    IF s = "tracks" THEN "input"
    ELSE IF s = "input" THEN "node"
    ELSE IF s = "node" THEN "output"
    ELSE IF s = "output" THEN "session"
    ELSE "idle"

\* The statement that follows step s in endCall.
StepAfter(s) ==
    IF s = "tracks" THEN "node"
    ELSE IF s = "node" THEN "input"
    ELSE IF s = "input" THEN "output"
    ELSE IF s = "output" THEN "session"
    ELSE "idle"

\* endPc after the running endCall finished step s, op telling whether the
\* step's operation was performed.
Stepped(op) ==
    [endPc EXCEPT !.step = StepAfter(endPc.step),
                  !.done = IF op THEN Append(endPc.done, endPc.step) ELSE endPc.done]

\* Line 26: endCall of a render whose transcript was tr starts.
EndBegin(tr, cause) ==
    /\ Idle
    /\ status' = IF mounted THEN "ended" ELSE status
    /\ endPc' = [step |-> "tracks", done |-> <<>>, tr |-> tr, cause |-> cause]

\* The End Call button.
EndBeginButton ==
    /\ mounted /\ status = "connected"
    /\ EndBegin(transcript, "button")
    /\ UNCHANGED <<apiKey, late, codecVars, capture, workspaceVars, mounted, textVars, captured,
                   sessionVars, micVars, playVars, timerVars, onCloseCalls, countVars>>

\* A setTimeout(endCall, 3000) fires.
EndBeginTimer ==
    /\ endTimers # <<>>
    /\ updateQueue = <<>>
    /\ EndBegin(Head(endTimers).tr, Head(endTimers).cause)
    /\ endTimers' = Tail(endTimers)
    /\ UNCHANGED <<apiKey, late, codecVars, capture, workspaceVars, mounted, textVars, captured,
                   sessionVars, micVars, playVars, closeTimers, onCloseCalls, countVars>>

\* Lines 27-29.
EndStopTracks ==
    /\ endPc.step = "tracks"
    /\ stream' = IF stream # "none" THEN "stopped" ELSE stream
    /\ trackStops' = IF stream # "none" THEN trackStops + 1 ELSE trackStops
    /\ endPc' = Stepped(stream # "none")
    /\ UNCHANGED <<apiKey, late, codecVars, capture, workspaceVars, mounted, status, textVars, captured,
                   sessionVars, micRequest, processor, disconnects, audioCtx, outCtx,
                   inCloses, outCloses, playVars, timerVars, onCloseCalls, countVars>>

\* Lines 30-32.
EndDisconnect ==
    /\ endPc.step = "node"
    /\ processor' = IF processor # "none" THEN "disconnected" ELSE processor
    /\ disconnects' = IF processor # "none" THEN disconnects + 1 ELSE disconnects
    /\ endPc' = Stepped(processor # "none")
    /\ UNCHANGED <<apiKey, late, codecVars, capture, workspaceVars, mounted, status, textVars, captured,
                   sessionVars, micRequest, stream, trackStops, audioCtx, outCtx,
                   inCloses, outCloses, playVars, timerVars, onCloseCalls, countVars>>

\* Lines 33-35.
EndCloseInput ==
    /\ endPc.step = "input"
    /\ audioCtx' = IF audioCtx = "running" THEN "closed" ELSE audioCtx
    /\ inCloses' = IF audioCtx = "running" THEN inCloses + 1 ELSE inCloses
    /\ endPc' = Stepped(audioCtx = "running")
    /\ UNCHANGED <<apiKey, late, codecVars, capture, workspaceVars, mounted, status, textVars, captured,
                   sessionVars, micRequest, stream, trackStops, processor, disconnects,
                   outCtx, outCloses, playVars, timerVars, onCloseCalls, countVars>>

\* Lines 36-38.
EndCloseOutput ==
    /\ endPc.step = "output"
    /\ outCtx' = IF outCtx = "running" THEN "closed" ELSE outCtx
    /\ outCloses' = IF outCtx = "running" THEN outCloses + 1 ELSE outCloses
    /\ endPc' = Stepped(outCtx = "running")
    /\ UNCHANGED <<apiKey, late, codecVars, capture, workspaceVars, mounted, status, textVars, captured,
                   sessionVars, micRequest, stream, trackStops, processor, disconnects,
                   audioCtx, inCloses, playVars, timerVars, onCloseCalls, countVars>>

\* Lines 39-42: the close request, the serialization and the close timer.
EndRequestClose ==
    /\ endPc.step = "session"
    /\ CloseStep
    /\ closeTimers' = Append(closeTimers,
           [final |-> Serialize(endPc.tr), expected |-> Serialize(transcript),
            cause |-> endPc.cause, done |-> Stepped(sessionPromise # "null").done])
    /\ endPc' = NotEnding
    /\ UNCHANGED <<apiKey, late, codecVars, capture, workspaceVars, mounted, status, textVars, captured,
                   micVars, playVars, endTimers, onCloseCalls, countVars>>

StepsInit == Init

StepsNext ==
    \/ Idle /\ ShowCall
    \/ Idle /\ Answer
    \/ Idle /\ SessionOpen
    \/ Idle /\ MicGranted
    \/ Idle /\ MicDenied
    \/ Idle /\ OnError
    \/ Idle /\ RemoteClose
    \/ Idle /\ Render
    \/ Idle /\ CloseTimerFire
    \/ EndBeginButton
    \/ EndBeginTimer
    \/ EndStopTracks
    \/ EndDisconnect
    \/ EndCloseInput
    \/ EndCloseOutput
    \/ EndRequestClose

StepsSpec == StepsInit /\ [][StepsNext]_vars

\* -------------------------------------------------------- audio capture
\* onaudioprocess and the sends it makes through the session promise.  The
\* promise is taken to resolve at any time after onopen has run, so that
\* frames may be captured while it is still pending.
CaptureInit == Init /\ apiKey

\* The session's onopen runs up to its await; the promise is still pending.
OnOpen ==
    /\ session = "connecting"
    /\ session' = "open"
    /\ micRequest' = "pending"
    /\ UNCHANGED <<apiKey, late, codecVars, endPc, capture, workspaceVars, mounted, status,
                   textVars, captured, sessionPromise, closePending, closeCalls, stream,
                   trackStops, processor, disconnects, audioCtx, outCtx, inCloses,
                   outCloses, playVars, timerVars, onCloseCalls, countVars>>

\* The waiting sends run newest first.
FlushedNewestFirst(h) ==
    [i \in 1..Len(h) |->
        [k |-> h[Len(h) + 1 - i].k, waited |-> TRUE, asked |-> h[Len(h) + 1 - i].after > 0,
         on |-> IF h[Len(h) + 1 - i].after = 0 THEN "open" ELSE "closed"]]

\* Lines 99-101: the callbacks waiting on the promise run in the order they
\* were attached; one attached after a close callback finds the session
\* closed.
Flushed(h) ==
    [i \in 1..Len(h) |->
        [k |-> h[i].k, waited |-> TRUE, asked |-> h[i].after > 0,
         on |-> IF h[i].after = 0 THEN "open" ELSE "closed"]]

\* The session promise resolves: the callbacks attached to it run.
PromiseResolves ==
    /\ sessionPromise = "pending"
    /\ session = "open"
    /\ sessionPromise' = "resolved"
    /\ session' = IF closePending > 0 THEN "closed" ELSE "open"
    /\ closeCalls' = closeCalls + closePending
    /\ closePending' = 0
    /\ capture' = [capture EXCEPT !.held = <<>>, !.sends = @ \o Flushed(capture.held)]
    /\ UNCHANGED <<apiKey, late, codecVars, endPc, workspaceVars, mounted, status, textVars,
                   captured, micVars, playVars, timerVars, onCloseCalls, countVars>>

\* Lines 96-102: the processing node delivers a frame; the send is attached
\* to the session promise.
CaptureFrame ==
    /\ processor = "connected"
    /\ audioCtx = "running"
    /\ capture.n < MaxFrames
    /\ LET k == capture.n + 1
       IN  capture' =
             IF sessionPromise = "pending"
             THEN [capture EXCEPT !.n = k,
                       !.held = Append(@, [k |-> k, after |-> closePending]),
                       !.due = IF closePending = 0 THEN Append(@, k) ELSE @]
             ELSE IF sessionPromise = "resolved"
             THEN [capture EXCEPT !.n = k,
                       !.sends = Append(@, [k |-> k, waited |-> FALSE,
                                            asked |-> closeCalls > 0, on |-> session]),
                       !.due = IF session = "open" THEN Append(@, k) ELSE @]
             ELSE [capture EXCEPT !.n = k]
    /\ UNCHANGED <<apiKey, late, codecVars, endPc, workspaceVars, mounted, status, textVars,
                   captured, sessionVars, micVars, playVars, timerVars, onCloseCalls,
                   countVars>>

CaptureNext ==
    \/ ShowCall
    \/ Answer
    \/ OnOpen
    \/ PromiseResolves
    \/ MicGranted
    \/ CaptureFrame
    \/ RemoteClose
    \/ EndCallButton
    \/ CloseTimerFire

CaptureSpec == CaptureInit /\ [][CaptureNext]_vars

\* ------------------------------------------- messages after the close
\* The handler run for a message that reaches a closed connection.
LateHandled(m, now) ==
    /\ late' = late + 1
    /\ Handler(m, now)
    /\ UNCHANGED <<codecVars, apiKey, endPc, capture, workspaceVars, mounted, status, captured,
                   sessionVars, micVars, inflight, timerVars, onCloseCalls, countVars>>

\* A message reaches the connection after session.close(): a socket that is
\* no longer open dispatches no message event, so the onmessage callback
\* given to ai.live.connect is not called.
LateDropped(m, now) ==
    /\ late' = late + 1
    /\ now = clock
    /\ UNCHANGED <<codecVars, apiKey, endPc, capture, workspaceVars, mounted, status, captured,
                   sessionVars, micVars, playVars, textVars, timerVars, onCloseCalls, countVars>>

\* The server's message arrives at a closed connection, up to MaxMsgs of them.
LateMessage(m, now) ==
    /\ session = "closed"
    /\ late < MaxMsgs
    /\ LateDropped(m, now)

LateInit == Init

\* The call with messages that can also arrive after the close.
LateNext ==
    \/ ShowCall
    \/ Answer
    \/ SessionOpen
    \/ MicGranted
    \/ MicDenied
    \/ OnError
    \/ \E m \in Messages, now \in 0..MaxClock : Message(m, now)
    \/ \E m \in Messages, now \in 0..MaxClock : LateMessage(m, now)
    \/ Render
    \/ EndCallButton
    \/ EndTimerFire
    \/ CloseTimerFire

LateSpec == LateInit /\ [][LateNext]_vars

\* createBlob: int16[i] = data[i] * 32768.
Scale == 32768

\* decodeAudioData: dataInt16[i] / 32768.0.
DecodeScale == 32768

\* The range of an Int16Array element.
Int16Min == -32768
Int16Span == 65536

\* The values of a byte.
ByteSpan == 256

\* The samples in [-1, 1], SubSteps of them per 1/Scale.
Samples == (0 - Scale * SubSteps)..(Scale * SubSteps)

\* The integer part of n / d, rounded toward zero, as the conversion of a
\* Number to an integer does.
Trunc(n, d) == IF n >= 0 THEN n \div d ELSE 0 - ((0 - n) \div d)

\* Storing integer t into an Int16Array element: t modulo 2^16, taken into
\* the signed range.
ToInt16(t) == ((t - Int16Min) % Int16Span) + Int16Min

\* new Uint8Array(int16.buffer): the two bytes of v, low byte first.
Bytes(v) == <<(v % Int16Span) % ByteSpan, (v % Int16Span) \div ByteSpan>>

\* encode: btoa of two bytes, as the three base64 digits that carry them.
Base64(b) ==
    <<b[1] \div 4, (b[1] % 4) * 16 + b[2] \div 16, (b[2] % 16) * 4>>

\* decode: atob, the two bytes back from the digits.
FromBase64(g) ==
    <<g[1] * 4 + g[2] \div 16, (g[2] % 16) * 16 + g[3] \div 4>>

\* new Int16Array(data.buffer): the element read from two bytes.
FromBytes(b) == ToInt16(b[1] + ByteSpan * b[2])

\* createBlob on the one sample x / (Scale * SubSteps): the product with
\* Scale is x / SubSteps.
CreateBlob(x) == Base64(Bytes(ToInt16(Trunc(x, SubSteps))))

\* decodeAudioData(decode(g)): the sample as a number of 1/DecodeScale.
DecodeAudioData(g) == FromBytes(FromBase64(g))

CodecInit ==
    /\ ModalInit
    /\ codecStage = "input"
    /\ sample \in Samples
    /\ payload = <<>>
    /\ decoded = 0

\* The sample is encoded for sending.
Encode ==
    /\ codecStage = "input"
    /\ codecStage' = "encoded"
    /\ payload' = CreateBlob(sample)
    /\ UNCHANGED <<sample, decoded>>
    /\ UNCHANGED <<apiKey, late, endPc, capture, workspaceVars, mounted, status, textVars, captured,
                   sessionVars, micVars, playVars, timerVars, onCloseCalls, countVars>>

\* The payload is decoded for playback.
Decode ==
    /\ codecStage = "encoded"
    /\ codecStage' = "decoded"
    /\ decoded' = DecodeAudioData(payload)
    /\ UNCHANGED <<sample, payload>>
    /\ UNCHANGED <<apiKey, late, endPc, capture, workspaceVars, mounted, status, textVars, captured,
                   sessionVars, micVars, playVars, timerVars, onCloseCalls, countVars>>

CodecNext == Encode \/ Decode

CodecSpec == CodecInit /\ [][CodecNext]_vars

\* C1: on every termination path of an answered call (End Call, microphone
\* failure, transport error) the string passed to onClose is the
\* serialization of the transcript as it stands when endCall runs.
C1_OnCloseGetsTranscript ==
    \A i \in DOMAIN onCloseCalls :
        onCloseCalls[i].by \in {"button", "mic", "transport"}
            => onCloseCalls[i].text = onCloseCalls[i].expected

\* Everything the pipeline holds is released.
Released ==
    /\ stream # "live"
    /\ processor # "connected"
    /\ audioCtx # "running"
    /\ outCtx # "running"
    /\ session # "open"

\* C2: once the call has ended and no endCall is left to run, every resource
\* the pipeline acquired has been released, also one acquired after endCall.
C2_EndedReleasesAll == (status = "ended" /\ endTimers = <<>>) => Released

\* C3: every start time handed to source.start is at or after the output
\* clock at that moment.
C3_StartNotInPast ==
    \A i \in DOMAIN scheduled : scheduled[i].start >= scheduled[i].now

\* The end of the i-th scheduled chunk.
EndOf(i) == scheduled[i].start + scheduled[i].dur

\* C4: chunk i+1 never starts before the end of chunk i, and starts exactly
\* there when the clock read for it is not later than that end.
C4_Gapless ==
    \A i \in 1..(Len(scheduled) - 1) :
        /\ scheduled[i + 1].start >= EndOf(i)
        /\ scheduled[i + 1].read <= EndOf(i) => scheduled[i + 1].start = EndOf(i)

\* Two chunks back to back, and two with the clock past the first one's end.
C4_Witness ==
    /\ Len(scheduled) >= 2
    /\ scheduled[2].read < EndOf(1)
    /\ scheduled[2].start = EndOf(1)

\* C5: the playback cursor starts at 0 and never decreases.
C5_CursorMonotone ==
    /\ nextStartTime = 0
    /\ [][nextStartTime' >= nextStartTime]_vars

\* The cursor has moved twice.
C5_Witness == Len(scheduled) >= 2 /\ nextStartTime >= 3


\* C6: a turn-complete with a non-empty accumulator appends one entry whose
\* text is the accumulated fragments: once rendered, the transcript is the
\* list of entries the commits were called with.
C6_CommitsFragments == (mounted /\ updateQueue = <<>>) => transcript = intended

\* The microphone apologies in a transcript.
MicApologies(tr) == Cardinality({i \in DOMAIN tr : tr[i].text = MicApology})

\* C7: a microphone denial appends exactly one Client apology, and the call
\* then reaches status ended through the timer, with no user action.
C7_MicDenialEndsCall ==
    /\ [](MicApologies(RenderAll(updateQueue)) <= 1)
    /\ []((micRequest = "denied" /\ mounted) => MicApologies(RenderAll(updateQueue)) = 1)
    /\ (micRequest = "denied") ~> (status = "ended")

\* The denial's own timer ended the call and handed the transcript over.
C7_Witness ==
    /\ micRequest = "denied"
    /\ status = "ended"
    /\ MicApologies(transcript) = 1
    /\ \E i \in DOMAIN onCloseCalls : onCloseCalls[i].by = "mic"

NoResources ==
    /\ stream = "none"
    /\ processor = "none"
    /\ audioCtx = "none"
    /\ outCtx = "none"
    /\ session = "none"
    /\ sessionPromise = "null"
    /\ micRequest = "idle"

\* C9: Decline hands onClose the fixed rejection text, and as long as the
\* call is ringing nothing of the pipeline has been acquired.
C9_DeclineAcquiresNothing ==
    /\ \A i \in DOMAIN onCloseCalls :
           onCloseCalls[i].by = "decline" => onCloseCalls[i].text = RejectText
    /\ status = "ringing" => NoResources

\* Declined without Answer ever pressed.
C9_Witness ==
    /\ answers = 0
    /\ Len(onCloseCalls) = 1
    /\ onCloseCalls[1].by = "decline"
    /\ callTranscript = RejectText
    /\ NoResources

\* C10: over all endCall invocations of a call, each release operation is
\* performed at most once.
C10_ReleaseAtMostOnce ==
    /\ trackStops <= 1
    /\ disconnects <= 1
    /\ inCloses <= 1
    /\ outCloses <= 1
    /\ closeCalls + closePending <= 1

\* The endCall invocations made so far: each one set a close timer.
EndCallRuns ==
    Len(closeTimers) + Cardinality({i \in DOMAIN onCloseCalls : onCloseCalls[i].by # "decline"})

\* C10 as amended: each context is closed at most once; the track stop, the
\* disconnect and the session close are made at most once per invocation.
C10_ContextsClosedOnce ==
    /\ inCloses <= 1
    /\ outCloses <= 1
    /\ trackStops <= EndCallRuns
    /\ disconnects <= EndCallRuns
    /\ closeCalls + closePending <= EndCallRuns

\* endCall ran twice with the contexts held.
C10_Witness ==
    /\ EndCallRuns >= 2
    /\ trackStops = 2
    /\ inCloses = 1
    /\ outCloses = 1


\* The position of a status value on ringing -> connected -> ended.
Rank(s) == IF s = "ringing" THEN 0 ELSE IF s = "connected" THEN 1 ELSE 2

\* C11: the status never returns to an earlier value, and once it is ended
\* it stays ended.
C11_StatusForwardOnly == [][Rank(status') >= Rank(status)]_vars

\* An answered call that went through connected and has ended.
C11_Witness ==
    /\ status = "ended"
    /\ sessionPromise # "null"
    /\ ~mounted


\* The transport apologies in a transcript.
TransportApologies(tr) == Cardinality({i \in DOMAIN tr : tr[i].text = TransportApology})

\* onerror has run: its timer is pending, or has fired.
ErrorHappened ==
    \/ \E i \in DOMAIN endTimers : endTimers[i].cause = "transport"
    \/ \E i \in DOMAIN closeTimers : closeTimers[i].cause = "transport"
    \/ \E i \in DOMAIN onCloseCalls : onCloseCalls[i].by = "transport"

\* C12: a transport error appends exactly one Client apology, the call then
\* reaches status ended through the timer with no user action, and no
\* session is open or being opened after the error.
C12_TransportErrorEndsCall ==
    /\ [](TransportApologies(RenderAll(updateQueue)) <= 1)
    /\ []((ErrorHappened /\ mounted) => TransportApologies(RenderAll(updateQueue)) = 1)
    /\ [](ErrorHappened => session \in {"failed", "closed"})
    /\ ErrorHappened ~> (status = "ended")

\* The error's own timer ended the call and handed the transcript over.
C12_Witness ==
    /\ status = "ended"
    /\ TransportApologies(transcript) = 1
    /\ transcript[Len(transcript)].author = "Client"
    /\ session \in {"failed", "closed"}
    /\ \E i \in DOMAIN onCloseCalls : onCloseCalls[i].by = "transport"


\* C13: when the connect promise rejects, one Client apology is appended and
\* the call reaches status ended with onClose invoked, as for a transport
\* error.
C13_RejectionRecovered ==
    (sessionPromise = "rejected") ~>
        (status = "ended" /\ ~mounted /\ TransportApologies(transcript) = 1)


\* C14: after answer, session open, three input fragments, turn-complete,
\* two output fragments, turn-complete and End Call, the transcript holds
\* exactly two entries, by You and then by Client, and the status is ended.
C14_TwoEntriesThenEnded ==
    (msgs = Len(Script) /\ (closeTimers # <<>> \/ onCloseCalls # <<>>)) =>
        /\ status = "ended"
        /\ Len(transcript) = 2
        /\ transcript[1].author = "You"
        /\ transcript[2].author = "Client"

\* The scripted call has ended and the transcript was handed over.
C14_Witness ==
    /\ msgs = Len(Script)
    /\ status = "ended"
    /\ Len(transcript) = 2
    /\ Len(onCloseCalls) = 1
    /\ onCloseCalls[1].by = "button"


\* The chunks scheduled while the status was connected.
ScheduledConnected == Cardinality({i \in DOMAIN scheduled : scheduled[i].status = "connected"})

\* C15: every decodable audio chunk received while the status is connected
\* is scheduled exactly once, whenever it arrives after the session opened.
C15_NoChunkDropped == ScheduledConnected = audioIn


\* The sessions open or being opened.
LiveSessions == orphans + (IF session \in {"connecting", "open"} THEN 1 ELSE 0)

\* C16: at most one session is open or being opened at any time.
C16_AtMostOneSession == LiveSessions <= 1

\* The one session of an answered call is open, with the microphone set up.
C16_Witness ==
    /\ LiveSessions = 1
    /\ answers = 1
    /\ session = "open"
    /\ micRequest = "granted"


\* The difference between the decoded and the original sample, in units of
\* 1 / (Scale * SubSteps); Scale and DecodeScale are the same number.
RoundTripError == decoded * SubSteps - sample

\* C17: for every sample in [-1, 1], endpoints included, decoding the
\* encoded sample yields a value within 1/32768 of it.
C17_RoundTrip ==
    codecStage = "decoded" =>
        /\ RoundTripError <= SubSteps
        /\ 0 - RoundTripError <= SubSteps


\* C18: the chunk of an earlier message gets an earlier start time than the
\* chunk of a later message, also when their handlers overlap at the await.
C18_ArrivalOrder ==
    \A i, j \in DOMAIN scheduled :
        scheduled[i].seq < scheduled[j].seq => scheduled[i].start < scheduled[j].start

\* Two chunks scheduled, the second having arrived while the handler of the
\* first was suspended.
C18_Witness ==
    /\ Len(scheduled) = 2
    /\ scheduled[1].waiting = 2
    /\ scheduled[1].seq < scheduled[2].seq


\* C19: a close of the session by the remote end leaves status, transcript,
\* accumulators, playback cursor, held resources and timers as they are.
C19_RemoteCloseInert ==
    [][RemoteClose =>
          UNCHANGED <<mounted, status, transcript, updateQueue, curIn, curOut,
                      nextStartTime, scheduled, micVars, sessionPromise, timerVars,
                      onCloseCalls>>]_vars

\* The remote end has closed the session; the call is still connected and
\* holds the microphone and the contexts.
C19_Witness ==
    /\ session = "closed"
    /\ closeCalls = 0
    /\ ~ErrorHappened
    /\ status = "connected"
    /\ stream = "live"
    /\ outCtx = "running"
    /\ timerVars = <<<<>>, <<>>>>


\* s is a prefix of t.
IsPrefix(s, t) == Len(s) <= Len(t) /\ SubSeq(t, 1, Len(s)) = s

\* C20: the transcript is append-only: every step leaves the entries
\* committed before it as an unchanged prefix of the list.
C20_AppendOnly == [][IsPrefix(transcript, transcript')]_vars

\* Entries were appended, one of them by a turn-complete.
C20_Witness ==
    /\ Len(transcript) >= 2
    /\ updateQueue = <<>>
    /\ msgs >= 1


\* No call has been presented yet: nothing of a call exists.
CallIdle ==
    /\ status = "ringing"
    /\ NoResources
    /\ timerVars = <<<<>>, <<>>>>
    /\ onCloseCalls = <<>>
    /\ answers = 0

\* C21: a call modal is presented only when no call exists: never while one
\* is ringing, connected or waiting to close, and never next to the
\* pipeline of an earlier one.
C21_OneCallAtATime == [][(mounted' /\ ~mounted) => CallIdle]_vars

\* The one call has ended and waits for its close timer; the workspace's
\* timeout has fired and cannot fire again.
C21_Witness ==
    /\ callFired
    /\ mounted
    /\ status = "ended"
    /\ closeTimers # <<>>


\* The order of the release operations.
ReleaseOrder == <<"tracks", "node", "input", "output", "session">>

\* The place of operation op in that order.
Place(op) == CHOOSE i \in DOMAIN ReleaseOrder : ReleaseOrder[i] = op

\* The operations in log d were performed in the release order.
InReleaseOrder(d) == \A i, j \in DOMAIN d : i < j => Place(d[i]) < Place(d[j])

\* C22: one endCall performs its release operations in the order tracks,
\* processing node, input context, output context, session close; with
\* nothing acquired it performs none of them and still completes.
C22_ReleaseInOrder ==
    /\ InReleaseOrder(endPc.done)
    /\ \A i \in DOMAIN closeTimers :
           /\ InReleaseOrder(closeTimers[i].done)
           /\ closeTimers[i].cause = "nokey" => closeTimers[i].done = <<>>

\* One endCall performed all five operations and set its close timer.
C22_Witness ==
    /\ closeTimers # <<>>
    /\ closeTimers[1].done = ReleaseOrder


\* C23: every transcription fragment of a message is appended to its
\* accumulator, the output fragment to curOut and the input fragment to
\* curIn, also when one message carries both.
C23_AllFragmentsAppended ==
    [][\A m \in Messages, now \in 0..MaxClock :
          (Message(m, now) /\ ~m.turn /\ m.audio = NoAudio) =>
              /\ curIn' = curIn \o m.inT
              /\ curOut' = curOut \o m.outT]_vars


\* The transcript with the queued updates rendered.
Pending == RenderAll(updateQueue)

\* The handler of m reaches the transcription part: it is not ended by a
\* payload that cannot be decoded.
TextHandled(m) == ~(m.audio = BadAudio /\ outCtx # "none")

\* The authors of the entries of tr, in order.
Authors(tr) == [i \in DOMAIN tr |-> tr[i].author]

\* C24: when a turn-complete finds both accumulators non-empty, it appends
\* the You entry and then the Client entry, next to each other, after the
\* entries already there.
C24_YouThenClient ==
    [][\A m \in Messages, now \in 0..MaxClock :
          (/\ Message(m, now)
           /\ m.turn /\ TextHandled(m) /\ mounted
           /\ InAfter(m) # "" /\ OutAfter(m) # "") =>
              Authors(Pending') = Authors(Pending) \o <<"You", "Client">>]_vars

\* One turn-complete committed the input "Hello" and an output.
C24_Witness ==
    /\ Len(transcript) = 2
    /\ transcript[1] = Entry("You", "Hello")
    /\ transcript[2].author = "Client"
    /\ updateQueue = <<>>


\* C25: a turn-complete appends no entry for an empty accumulator, so no
\* transcript entry has empty text.
C25_NoEmptyText == \A i \in DOMAIN transcript : transcript[i].text # ""


\* b is a, or a with one fragment of F at its end.
Extended(a, b, F) == b = a \/ \E f \in F : b = a \o f

\* This step is a message whose turn-complete is processed.
TurnProcessed == \E m \in Messages, now \in 0..MaxClock :
    Message(m, now) /\ m.turn /\ TextHandled(m)

\* C26: right after a turn-complete is processed both accumulators are
\* empty, and only a turn-complete shortens or clears an accumulator.
C26_ClearedOnlyByTurn ==
    [][/\ TurnProcessed => (curIn' = "" /\ curOut' = "")
       /\ ~TurnProcessed => (Extended(curIn, curIn', InFrags) /\ Extended(curOut, curOut', OutFrags))]_vars

\* A turn-complete committed the input accumulator and cleared it.
C26_Witness ==
    /\ \E i \in DOMAIN intended : intended[i].author = "You"
    /\ curIn = ""
    /\ curOut = ""
    /\ status = "connected"


\* The frames of the sends in s.
FramesOf(s) == [i \in 1..Len(s) |-> s[i].k]

\* The frames transmitted: the sends made on an open session.
OnOpenSession(x) == x.on = "open"
Transmitted == FramesOf(SelectSeq(capture.sends, OnOpenSession))

\* The frames waiting for the promise, attached before any close request.
BeforeClose(x) == x.after = 0
Waiting == FramesOf(SelectSeq(capture.held, BeforeClose))

\* C27: the frames captured for a live session are transmitted in capture
\* order, none lost or twice; those captured before the promise resolves
\* wait and are sent in capture order when it resolves.
C27_FramesInOrder == Transmitted \o Waiting = capture.due

\* Two frames transmitted, the first captured before the promise resolved.
C27_Witness ==
    /\ Transmitted = <<1, 2>>
    /\ capture.sends[1].waited
    /\ capture.held = <<>>


\* C28: the microphone stream and the capture nodes exist before the
\* session is open, and the session is opened before the playback context
\* exists.
C28_DependencyOrder ==
    /\ session = "open" => (stream # "none" /\ processor # "none")
    /\ outCtx # "none" => sessionPromise # "null"


\* C29: a message whose audio payload cannot be decoded schedules nothing,
\* leaves the status and appends no apology, and its transcription
\* fragments and turn-complete are handled as for any message.
C29_BadAudioSkipped ==
    [][\A m \in Messages, now \in 0..MaxClock :
          (Message(m, now) /\ m.audio = BadAudio) =>
              /\ scheduled' = scheduled
              /\ status' = status
              /\ endTimers' = endTimers
              /\ curIn' = (IF m.turn THEN "" ELSE InAfter(m))
              /\ curOut' = (IF m.turn THEN "" ELSE OutAfter(m))
              /\ intended' = (IF m.turn THEN IntendedAfterTurn(m) ELSE intended)]_vars


\* C30: a send issued after endCall requested the close of the session is
\* never made on an open session: no frame is transmitted by it.
C30_NoSendAfterClose ==
    \A i \in DOMAIN capture.sends :
        capture.sends[i].asked => capture.sends[i].on # "open"

\* A frame was captured after endCall and its send found the session closed.
C30_Witness ==
    /\ status = "ended"
    /\ \E i \in DOMAIN capture.sends :
           capture.sends[i].asked /\ capture.sends[i].on = "closed"


\* C31: onClose is invoked at most once for the call modal, whatever
\* triggers ended the call, so the transcript the workspace stored at the
\* first invocation is never replaced.
C31_OnCloseOnce ==
    /\ Len(onCloseCalls) <= 1
    /\ onCloseCalls # <<>> => callTranscript = onCloseCalls[1].text


C33_DeferredCloseKept ==
    /\ []((EndCallRuns > 0 /\ sessionPromise = "pending") => closePending > 0)
    /\ [](EndCallRuns > 0 => session # "open")
    /\ [][(sessionPromise = "pending" /\ sessionPromise' = "resolved" /\ closePending > 0) =>
              /\ session' = "closed"
              /\ closeCalls' = closeCalls + closePending
              /\ closePending' = 0]_vars

\* The call was ended during the handshake: the close waits on the promise.
C33_Witness ==
    /\ status = "ended"
    /\ sessionPromise = "pending"
    /\ session = "connecting"
    /\ closePending = 1
    /\ closeCalls = 0


\* The apologies for the missing API key among the entries of tr.
NoKeyApologies(tr) ==
    Cardinality({i \in DOMAIN tr : tr[i] = Entry("Client", NoKeyApology)})

\* Without an API key the status is never connected, nothing of the
\* pipeline is acquired, and the transcript holds one apology per press.
NoKeyAcquiresNothing ==
    ~apiKey =>
        /\ status # "connected"
        /\ NoResources
        /\ updateQueue = <<>>
        /\ NoKeyApologies(transcript) = answers
        /\ Len(transcript) = answers

\* The candidate declined the call.
Declined == \E i \in DOMAIN onCloseCalls : onCloseCalls[i].by = "decline"

\* C34: without an API key, Answer never sets the status to connected and
\* acquires nothing; it appends one Client apology per press, and the call
\* reaches status ended through the 3-second timer.
C34_NoKeyEnds ==
    /\ []NoKeyAcquiresNothing
    /\ (~apiKey /\ answers > 0) ~> (status = "ended")

\* C34 as amended: the call reaches status ended through the timer unless
\* the candidate declines first, which closes the modal while it is ringing.
C34_NoKeyEndsUnlessDeclined ==
    /\ []NoKeyAcquiresNothing
    /\ (~apiKey /\ answers > 0) ~> (status = "ended" \/ Declined)

\* Answer was pressed twice without a key and a timer ended the call.
C34_Witness ==
    /\ ~apiKey
    /\ answers = 2
    /\ NoKeyApologies(transcript) = 2
    /\ status = "ended"
    /\ ~Declined
    /\ \E i \in DOMAIN onCloseCalls : onCloseCalls[i].by = "nokey"

====
